---- MODULE Spec2Model ----
(***************************************************************************)
(* xnumon log event serialization (src/logevt.c).                          *)
(*                                                                         *)
(* Every logevt_* serializer turns one event descriptor into a sequence    *)
(* of calls on the log format engine (the sink, logfmt_t).  The model      *)
(* records the calls of the latest serializer invocation in `out`.         *)
(***************************************************************************)
EXTENDS Integers, Sequences, FiniteSets, TLC

VARIABLES
    config,   \* static config_t *config: NIL before logevt_init, else <<cfg>>
    arg0,     \* the descriptor handed to the latest serializer call (NIL: none yet)
    nss,      \* name-service answers (getpwuid/getgrgid) seen by the latest call
    sinkerr,  \* TRUE iff a write of the sink failed during the latest call
    out,      \* the sink calls made by the latest serializer call, in order
    ret,      \* the value the latest serializer call returned
    again,    \* TRUE iff the latest call was given the descriptor of the call before it
    alive,    \* FALSE once an assert(3) has failed and abort() ended the process
    walk,     \* the position of an ancestor walk followed step by step (NIL: none)
    copy,     \* what the caller has kept of one earlier call (NIL: nothing)
    snap      \* the value of config during the latest serializer call

vars == <<config, arg0, nss, sinkerr, out, ret, again, alive, walk, copy,
          snap>>

(***************************************************************************)
(* Bounds of the model                                                     *)
(***************************************************************************)
\* at most this many of the two-valued configuration settings are switched on
MaxSwitches == 1
\* config->ancestors ranges over 0..MaxAnc and SIZE_MAX ("unlimited")
MaxAnc == 1
\* longest chain of image_exec_t nodes linked through ->prev: long enough
\* to leave more ancestors than any bounded config->ancestors admits
MaxChain == MaxAnc + 2

(***************************************************************************)
(* C data                                                                  *)
(***************************************************************************)
\* a NULL struct pointer; a non-NULL pointer to x is <<x>>
NIL == <<>>
Ref(x) == <<x>>
\* a NULL char pointer
NULLSTR == "<NULL>"
\* (uid_t)-1, (gid_t)-1, (dev_t)-1: the all-ones pattern of the 32 bit
\* unsigned types, kept as the signed integer of the same pattern
NOID == 0 - 1
\* SIZE_MAX, the "unlimited" setting of config->ancestors: the largest
\* size_t, kept as the largest integer TLC represents
SIZE_MAX == 2147483647

If(c, s) == IF c THEN s ELSE <<>>

(***************************************************************************)
(* The sink: one record per call on logfmt_t                               *)
(***************************************************************************)
Call(op, s, n) == [op |-> op, s |-> s, n |-> n]
record_begin == Call("record_begin", "", 0)
record_end == Call("record_end", "", 0)
dict_begin == Call("dict_begin", "", 0)
dict_end == Call("dict_end", "", 0)
dict_item(label) == Call("dict_item", label, 0)
list_begin == Call("list_begin", "", 0)
list_end == Call("list_end", "", 0)
list_item(label) == Call("list_item", label, 0)
value_null == Call("value_null", "", 0)
value_bool(b) == Call("value_bool", "", IF b THEN 1 ELSE 0)
value_int(n) == Call("value_int", "", n)
value_uint(n) == Call("value_uint", "", n)
value_uint_oct(n) == Call("value_uint_oct", "", n)
value_timespec(tv) == Call("value_timespec", "", tv)
value_ttydev(dev) == Call("value_ttydev", "", dev)
value_buf_hex(buf) == Call("value_buf_hex", buf, 0)
value_string(s) == Call("value_string", s, 0)

ValueOps == {"value_null", "value_bool", "value_int", "value_uint",
             "value_uint_oct", "value_timespec", "value_ttydev",
             "value_buf_hex", "value_string"}

(***************************************************************************)
(* Identity resolver                                                       *)
(***************************************************************************)
\* getpwuid(3): NIL when the lookup fails; ns.pw maps the known uids to names
getpwuid(ns, uid) ==
    IF uid \in DOMAIN ns.pw THEN Ref([pw_name |-> ns.pw[uid]]) ELSE NIL

\* getgrgid(3)
getgrgid(ns, gid) ==
    IF gid \in DOMAIN ns.gr THEN Ref([gr_name |-> ns.gr[gid]]) ELSE NIL

\* logevt_uid leaving the key of an unset id without a value
logevt_uid_unset_without_value(cfg, ns, uid, idlabel, namelabel) ==
    LET pw == getpwuid(ns, uid) IN
    <<dict_item(idlabel)>> \o
    IF uid = NOID
    THEN <<>>
    ELSE <<value_uint(uid)>> \o
         If(cfg.resolve_users_groups /\ pw # NIL,
            <<dict_item(namelabel), value_string(pw[1].pw_name)>>)

logevt_uid(cfg, ns, uid, idlabel, namelabel) ==
    LET pw == getpwuid(ns, uid) IN
    <<dict_item(idlabel)>> \o
    IF uid = NOID
    THEN <<value_int(-1)>>
    ELSE <<value_uint(uid)>> \o
         If(cfg.resolve_users_groups /\ pw # NIL,
            <<dict_item(namelabel), value_string(pw[1].pw_name)>>)

\* logevt_gid looking the name up whatever resolve_users_groups says
logevt_gid_always_resolving(cfg, ns, gid, idlabel, namelabel) ==
    LET gr == getgrgid(ns, gid) IN
    <<dict_item(idlabel)>> \o
    IF gid = NOID
    THEN <<value_int(-1)>>
    ELSE <<value_uint(gid)>> \o
         If(gr # NIL,
            <<dict_item(namelabel), value_string(gr[1].gr_name)>>)

logevt_gid(cfg, ns, gid, idlabel, namelabel) ==
    LET gr == getgrgid(ns, gid) IN
    <<dict_item(idlabel)>> \o
    IF gid = NOID
    THEN <<value_int(-1)>>
    ELSE <<value_uint(gid)>> \o
         If(cfg.resolve_users_groups /\ gr # NIL,
            <<dict_item(namelabel), value_string(gr[1].gr_name)>>)

(***************************************************************************)
(* Record envelope                                                         *)
(***************************************************************************)
logevt_header(hdr) ==
    <<record_begin, dict_begin,
      dict_item("version"), Call("value_uint", "LOGEVT_VERSION", 0),
      dict_item("time"), value_timespec(hdr.tv),
      dict_item("eventcode"), value_uint(hdr.code)>>

\* logevt_footer leaving the record open
logevt_footer_without_record_end == <<dict_end>>

logevt_footer == <<dict_end, record_end>>

(***************************************************************************)
(* Helpers of other compilation units, as logevt.c uses them               *)
(***************************************************************************)
\* codesign_t carries result and origin as enums; the model keeps their
\* printable names, and NOORIGIN for the zero origin
NOORIGIN == "<0>"
codesign_result_s(cs) == cs.result
codesign_origin_s(cs) == cs.origin
codesign_is_good(cs) == cs.result = "good"
codesign_is_apple_system(cs) == cs.result = "good" /\ cs.origin = "system"

\* ipaddr_t is kept as its printable form; the empty address is ""
ipaddr_is_empty(addr) == addr = ""
ipaddrtoa(addr) == addr
\* so->protocol is an int; protocoltoa names it
protocoltoa(protocol) == IF protocol = 6 THEN "tcp" ELSE "udp"

(***************************************************************************)
(* Image-exec renderings                                                   *)
(***************************************************************************)
\* the three "if (config->hflags & HASH_x)" blocks shared by the renderings
HashItems(cfg, hashes) ==
    If("md5" \in cfg.hflags,
       <<dict_item("md5"), value_buf_hex(hashes.md5)>>) \o
    If("sha1" \in cfg.hflags,
       <<dict_item("sha1"), value_buf_hex(hashes.sha1)>>) \o
    If("sha256" \in cfg.hflags,
       <<dict_item("sha256"), value_buf_hex(hashes.sha256)>>)

\* the guard dropping the hashes of every signed image, platform or not
HashesWanted_any_signature(cfg, ie) ==
    /\ "EIFLAG_HASHES" \in ie.flags
    /\ \/ ~cfg.omit_apple_hashes
       \/ ie.codesign = NIL

\* the guard of the hash block of both renderings
HashesWanted(cfg, ie) ==
    /\ "EIFLAG_HASHES" \in ie.flags
    /\ \/ ~cfg.omit_apple_hashes
       \/ ie.codesign = NIL
       \/ ~codesign_is_apple_system(ie.codesign[1])

\* mode and owner: the "if (ie->flags & (EIFLAG_STAT|EIFLAG_ATTR))" block
OwnerItems(cfg, ns, ie) ==
    If(ie.flags \cap {"EIFLAG_STAT", "EIFLAG_ATTR"} # {},
       If(~cfg.omit_mode,
          <<dict_item("mode"), value_uint_oct(ie.stat.mode)>>) \o
       logevt_uid(cfg, ns, ie.stat.uid, "uid", "uname") \o
       If(~cfg.omit_groups,
          logevt_gid(cfg, ns, ie.stat.gid, "gid", "gname")))

\* the stat block with mtime under the omit_size switch
StatItems_mtime_under_omit_size(cfg, ie) ==
    If("EIFLAG_STAT" \in ie.flags,
       If(~cfg.omit_size,
          <<dict_item("size"), value_uint(ie.stat.size)>>) \o
       If(~cfg.omit_size,
          <<dict_item("mtime"), value_timespec(ie.stat.mtime)>>) \o
       If(~cfg.omit_ctime,
          <<dict_item("ctime"), value_timespec(ie.stat.ctime)>>) \o
       If(~cfg.omit_btime,
          <<dict_item("btime"), value_timespec(ie.stat.btime)>>))

\* size and times: the "if (ie->flags & EIFLAG_STAT)" block
StatItems(cfg, ie) ==
    If("EIFLAG_STAT" \in ie.flags,
       If(~cfg.omit_size,
          <<dict_item("size"), value_uint(ie.stat.size)>>) \o
       If(~cfg.omit_mtime,
          <<dict_item("mtime"), value_timespec(ie.stat.mtime)>>) \o
       If(~cfg.omit_ctime,
          <<dict_item("ctime"), value_timespec(ie.stat.ctime)>>) \o
       If(~cfg.omit_btime,
          <<dict_item("btime"), value_timespec(ie.stat.btime)>>))

\* the code signature: the "if (ie->codesign)" block
SignatureItems(ie) ==
    If(ie.codesign # NIL,
       LET cs == ie.codesign[1] IN
       <<dict_item("signature"), value_string(codesign_result_s(cs))>> \o
       If(cs.origin # NOORIGIN,
          <<dict_item("origin"), value_string(codesign_origin_s(cs))>>) \o
       If(cs.cdhash # NULLSTR,
          <<dict_item("cdhash"), value_buf_hex(cs.cdhash)>>) \o
       If(cs.ident # NULLSTR,
          <<dict_item("ident"), value_string(cs.ident)>>) \o
       If(cs.teamid # NULLSTR,
          <<dict_item("teamid"), value_string(cs.teamid)>>) \o
       If(cs.certcn # NULLSTR,
          <<dict_item("certcn"), value_string(cs.certcn)>>))

\* object-image rendering
logevt_image_exec_image(cfg, ns, ie) ==
    <<dict_begin, dict_item("path"), value_string(ie.path)>> \o
    OwnerItems(cfg, ns, ie) \o
    StatItems(cfg, ie) \o
    If(HashesWanted(cfg, ie), HashItems(cfg, ie.hashes)) \o
    SignatureItems(ie) \o
    <<dict_end>>

\* assert(3) failing: abort() ends the process in the middle of the record.
\* The marker is no sink call; Emitted cuts the call sequence there.
ABORT == Call("abort", "", 0)

\* logevt_process_image_exec without the test of the signature result
logevt_process_image_exec_any_result(cfg, ie) ==
    <<dict_begin>> \o
    If("EIFLAG_PIDLOOKUP" \notin ie.flags,
       <<dict_item("exec_time"), value_timespec(ie.hdr.tv)>>) \o
    <<dict_item("exec_pid"), value_int(ie.pid),
      dict_item("path"), value_string(ie.path)>> \o
    If(HashesWanted(cfg, ie), HashItems(cfg, ie.hashes)) \o
    If(ie.codesign # NIL,
       LET cs == ie.codesign[1] IN
       If(cs.ident # NULLSTR,
          <<dict_item("ident"), value_string(cs.ident)>>) \o
       If(cs.teamid # NULLSTR,
          <<dict_item("teamid"), value_string(cs.teamid)>>)) \o
    If(ie.script # NIL,
       LET script == ie.script[1] IN
       <<dict_item("script"), dict_begin,
         dict_item("path"), value_string(script.path)>> \o
       If(script.codesign # NIL, <<ABORT>>) \o
       If("EIFLAG_HASHES" \in script.flags,
          HashItems(cfg, script.hashes)) \o
       <<dict_end>>) \o
    <<dict_end>>

\* process-context rendering
logevt_process_image_exec(cfg, ie) ==
    <<dict_begin>> \o
    If("EIFLAG_PIDLOOKUP" \notin ie.flags,
       <<dict_item("exec_time"), value_timespec(ie.hdr.tv)>>) \o
    <<dict_item("exec_pid"), value_int(ie.pid),
      dict_item("path"), value_string(ie.path)>> \o
    If(HashesWanted(cfg, ie), HashItems(cfg, ie.hashes)) \o
    If(ie.codesign # NIL /\ codesign_is_good(ie.codesign[1]),
       LET cs == ie.codesign[1] IN
       If(cs.ident # NULLSTR,
          <<dict_item("ident"), value_string(cs.ident)>>) \o
       If(cs.teamid # NULLSTR,
          <<dict_item("teamid"), value_string(cs.teamid)>>)) \o
    If(ie.script # NIL,
       LET script == ie.script[1] IN
       <<dict_item("script"), dict_begin,
         dict_item("path"), value_string(script.path)>> \o
       If(script.codesign # NIL, <<ABORT>>) \o
       If("EIFLAG_HASHES" \in script.flags,
          HashItems(cfg, script.hashes)) \o
       <<dict_end>>) \o
    <<dict_end>>

\* the loop comparing the depth after writing the entry: one entry more
RECURSIVE AncestorLoop_one_more(_, _, _, _)
AncestorLoop_one_more(cfg, mem, pie, depth) ==
    IF pie = 0 \/ mem[pie].pid <= 0 THEN <<>>
    ELSE <<list_item("ancestor")>> \o
         logevt_process_image_exec(cfg, mem[pie]) \o
         IF depth = cfg.ancestors THEN <<>>
         ELSE AncestorLoop_one_more(cfg, mem, mem[pie].prev, depth + 1)

\* the for loop of logevt_process_image_exec_ancestors; pie is an address
\* in mem (0 is NULL), mem[pie].prev the back reference
RECURSIVE AncestorLoop(_, _, _, _)
AncestorLoop(cfg, mem, pie, depth) ==
    IF pie = 0 \/ mem[pie].pid <= 0 THEN <<>>
    ELSE IF depth = cfg.ancestors THEN <<>>
    ELSE <<list_item("ancestor")>> \o
         logevt_process_image_exec(cfg, mem[pie]) \o
         AncestorLoop(cfg, mem, mem[pie].prev, depth + 1)

\* the walk with a depth counter that outlives the call: it starts from
\* the number of entries the call before has written
logevt_process_image_exec_ancestors_static_depth(cfg, mem, ie) ==
    <<list_begin>> \o
    AncestorLoop(cfg, mem, ie,
                 Cardinality({i \in DOMAIN out :
                                  out[i] = list_item("ancestor")})) \o
    <<list_end>>

logevt_process_image_exec_ancestors(cfg, mem, ie) ==
    <<list_begin>> \o AncestorLoop(cfg, mem, ie, 0) \o <<list_end>>

(***************************************************************************)
(* Process descriptor serializer                                           *)
(***************************************************************************)
\* the credentials of a process known in full: the "else if (process)"
\* branch after the pid
CredentialItems(cfg, ns, p) ==
    logevt_uid(cfg, ns, p.auid, "auid", "auname") \o
    logevt_uid(cfg, ns, p.euid, "euid", "euname") \o
    If(~cfg.omit_groups,
       logevt_gid(cfg, ns, p.egid, "egid", "egname")) \o
    logevt_uid(cfg, ns, p.ruid, "ruid", "runame") \o
    If(~cfg.omit_groups,
       logevt_gid(cfg, ns, p.rgid, "rgid", "rgname")) \o
    If(~cfg.omit_sid,
       <<dict_item("sid"), value_uint(p.sid)>>) \o
    If(p.dev # NOID,
       <<dict_item("dev"), value_ttydev(p.dev)>>) \o
    If(~ipaddr_is_empty(p.addr),
       <<dict_item("addr"), value_string(ipaddrtoa(p.addr))>>)

\* the "if (ie)" block starting the walk at the image itself
ProcessImageItems_walk_from_image(cfg, mem, ie) ==
    If(ie # 0,
       If(mem[ie].fork_tv > 0,
          <<dict_item("fork_time"), value_timespec(mem[ie].fork_tv)>>) \o
       <<dict_item("image")>> \o
       logevt_process_image_exec(cfg, mem[ie]) \o
       If(cfg.ancestors > 0,
          <<dict_item("ancestors")>> \o
          logevt_process_image_exec_ancestors(cfg, mem, ie)))

\* the image of a process and its ancestors: the "if (ie)" block; ie is
\* an address in mem
ProcessImageItems(cfg, mem, ie) ==
    If(ie # 0,
       If(mem[ie].fork_tv > 0,
          <<dict_item("fork_time"), value_timespec(mem[ie].fork_tv)>>) \o
       <<dict_item("image")>> \o
       logevt_process_image_exec(cfg, mem[ie]) \o
       If(cfg.ancestors > 0,
          <<dict_item("ancestors")>> \o
          logevt_process_image_exec_ancestors(cfg, mem, mem[ie].prev)))

\* process: NIL or <<audit_proc_t>>; ie: address in mem, 0 is NULL
\* logevt_process with "if (process)" in the place of "else if (process)"
logevt_process_pid_and_process(cfg, ns, mem, process, processpid, ie) ==
    <<dict_begin>> \o
    If(ie # 0 /\ "EIFLAG_PIDLOOKUP" \in mem[ie].flags,
       <<dict_item("reconstructed"), value_bool(TRUE)>>) \o
    If(processpid > 0,
       <<dict_item("pid"), value_int(processpid)>>) \o
    If(process # NIL,
       <<dict_item("pid"), value_int(process[1].pid)>> \o
       CredentialItems(cfg, ns, process[1])) \o
    ProcessImageItems(cfg, mem, ie) \o
    <<dict_end>>

logevt_process(cfg, ns, mem, process, processpid, ie) ==
    <<dict_begin>> \o
    If(ie # 0 /\ "EIFLAG_PIDLOOKUP" \in mem[ie].flags,
       <<dict_item("reconstructed"), value_bool(TRUE)>>) \o
    (IF processpid > 0
     THEN <<dict_item("pid"), value_int(processpid)>>
     ELSE IF process # NIL
     THEN <<dict_item("pid"), value_int(process[1].pid)>> \o
          CredentialItems(cfg, ns, process[1])
     ELSE <<>>) \o
    ProcessImageItems(cfg, mem, ie) \o
    <<dict_end>>

(***************************************************************************)
(* Event serializers: the calls each one makes, in order                   *)
(***************************************************************************)
\* printable forms computed outside logevt.c
hashes_flags_s(hflags) ==
    IF hflags = {} THEN ""
    ELSE IF hflags = {"md5"} THEN "md5"
    ELSE IF hflags = {"sha1"} THEN "sha1"
    ELSE IF hflags = {"sha256"} THEN "sha256"
    ELSE IF hflags = {"md5", "sha1"} THEN "md5,sha1"
    ELSE IF hflags = {"md5", "sha256"} THEN "md5,sha256"
    ELSE IF hflags = {"sha1", "sha256"} THEN "sha1,sha256"
    ELSE "md5,sha1,sha256"

\* a run of "dict_item(key); value_uint(counter)" pairs
RECURSIVE Counters(_, _)
Counters(keys, st) ==
    IF keys = <<>> THEN <<>>
    ELSE <<dict_item(Head(keys)), value_uint(st[Head(keys)])>> \o
         Counters(Tail(keys), st)

\* a run of "dict_item(key); value_bool(flag)" pairs
RECURSIVE Flags(_, _)
Flags(keys, cfg) ==
    IF keys = <<>> THEN <<>>
    ELSE <<dict_item(Head(keys)), value_bool(cfg[Head(keys)])>> \o
         Flags(Tail(keys), cfg)

\* a list of strings: list_begin, "list_item(label); value_string" per
\* entry of the NULL-terminated vector, list_end
RECURSIVE ListItems(_, _)
ListItems(label, v) ==
    IF v = <<>> THEN <<>>
    ELSE <<list_item(label), value_string(Head(v))>> \o
         ListItems(label, Tail(v))

StringList(label, v) == <<list_begin>> \o ListItems(label, v) \o <<list_end>>

\* number of event kinds, the length of st->lq.counts
LOGEVT_SIZE == 8

XnumonOpsCalls(cfg, ops) ==
    logevt_header(ops.hdr) \o
    <<dict_item("op"), value_string(ops.subtype)>> \o
    <<dict_item("build"), dict_begin,
      dict_item("version"), value_string("build_version"),
      dict_item("date"), value_string("build_date"),
      dict_item("info"), value_string("build_info"),
      dict_end>> \o
    <<dict_item("config"), dict_begin,
      dict_item("path"), value_string(cfg.path),
      dict_item("id"),
      IF cfg.id # NULLSTR THEN value_string(cfg.id) ELSE value_null>> \o
    Flags(<<"launchd_mode", "debug">>, cfg) \o
    <<dict_item("events"), value_string(cfg.events),
      dict_item("stats_interval"), value_uint(cfg.stats_interval),
      dict_item("kextlevel"), value_string(cfg.kextlevel),
      dict_item("hashes"), value_string(hashes_flags_s(cfg.hflags))>> \o
    Flags(<<"codesign">>, cfg) \o
    <<dict_item("envlevel"), value_string(cfg.envlevel)>> \o
    Flags(<<"resolve_users_groups", "omit_mode", "omit_size", "omit_mtime",
            "omit_ctime", "omit_btime", "omit_sid", "omit_groups",
            "omit_apple_hashes">>, cfg) \o
    <<dict_item("ancestors"),
      IF cfg.ancestors < SIZE_MAX THEN value_uint(cfg.ancestors)
      ELSE value_string("unlimited"),
      dict_item("logdst"), value_string(cfg.logdst),
      dict_item("logfmt"), value_string(cfg.logfmt),
      dict_item("logoneline"),
      IF cfg.logoneline = -1 THEN value_null
      ELSE value_bool(cfg.logoneline # 0),
      dict_item("logfile"),
      IF cfg.logfile # NULLSTR THEN value_string(cfg.logfile)
      ELSE value_null,
      dict_item("limit_nofile"), value_uint(cfg.limit_nofile)>> \o
    Flags(<<"suppress_image_exec_at_start">>, cfg) \o
    Counters(<<"suppress_image_exec_by_ident",
               "suppress_image_exec_by_path",
               "suppress_image_exec_by_ancestor_ident",
               "suppress_image_exec_by_ancestor_path",
               "suppress_process_access_by_subject_ident",
               "suppress_process_access_by_subject_path">>, cfg) \o
    Flags(<<"suppress_socket_op_localhost">>, cfg) \o
    Counters(<<"suppress_socket_op_by_subject_ident",
               "suppress_socket_op_by_subject_path">>, cfg) \o
    <<dict_end>> \o
    <<dict_item("system"), dict_begin,
      dict_item("name"), value_string("os_name"),
      dict_item("version"), value_string("os_version"),
      dict_item("build"), value_string("os_build"),
      dict_end>> \o
    logevt_footer

\* one "dict_item(name); dict_begin; counters; dict_end" group of the stats
Group(name, keys, st) ==
    <<dict_item(name), dict_begin>> \o Counters(keys, st) \o <<dict_end>>

RECURSIVE EventCounts(_, _)
EventCounts(counts, i) ==
    IF i >= LOGEVT_SIZE THEN <<>>
    ELSE <<list_item("event"), value_uint(counts[i])>> \o
         EventCounts(counts, i + 1)

\* the keys of each group of counters, in the order they are written
EvtloopKeys ==
    <<"aupclobber", "aueunknown", "failedsyscall",
      "radar38845422", "radar38845422_fatal", "radar38845784",
      "radar39267328", "radar39267328_fatal",
      "radar39623812", "radar39623812_fatal",
      "radar42770257", "radar42770257_fatal",
      "radar42783724", "radar42783724_fatal",
      "radar42784847", "radar42784847_fatal",
      "radar42946744", "radar42946744_fatal",
      "radar43151662", "radar43151662_fatal",
      "missingtoken", "oom">>
ProcmonKeys == <<"actprocs", "actexecimages", "liveacq">>
MissKeys == <<"bypid", "forksubj", "execsubj", "execinterp",
              "chdirsubj", "getcwd">>
MonKeys == <<"recvd", "procd", "oom">>
FilemonKeys == <<"recvd", "procd", "lpmiss", "oom">>
KextKeys == <<"buckets", "visitors", "timeout", "error", "defer", "deny">>
PrepKeys == <<"buckets", "lookup", "miss", "drop", "bktskip">>
AupiKeys == <<"buckets", "bucketmax", "insert", "read", "drop">>
CacheKeys == <<"buckets", "bucketmax", "put", "get", "hit", "miss", "inv">>

XnumonStatsCalls(st) ==
    logevt_header(st.hdr) \o
    Group("evtloop", EvtloopKeys, st.el) \o
    <<dict_item("procmon"), dict_begin>> \o
    Counters(ProcmonKeys, st.pm) \o
    Group("miss", MissKeys, st.pm) \o
    Counters(<<"oom">>, st.pm) \o
    <<dict_end>> \o
    Group("hackmon", MonKeys, st.hm) \o
    Group("filemon", FilemonKeys, st.fm) \o
    Group("sockmon", MonKeys, st.sm) \o
    Group("kext_cdevq", KextKeys, st.ke) \o
    Group("prep_queue", PrepKeys, st.pq) \o
    Group("aupi_cdevq", AupiKeys, st.ap) \o
    Group("work_queue", <<"buckets">>, st.wq) \o
    <<dict_item("log_queue"), dict_begin>> \o
    Counters(<<"buckets">>, st.lq) \o
    <<dict_item("events"), list_begin>> \o
    EventCounts(st.lq.counts, 0) \o
    <<list_end>> \o
    Counters(<<"errors">>, st.lq) \o
    <<dict_end>> \o
    Group("hash_cache", CacheKeys, st.ch) \o
    Group("csig_cache", CacheKeys, st.cc) \o
    Group("ldpl_cache", CacheKeys, st.cl) \o
    logevt_footer

\* ev.ie is the image_exec_t the event is about, ev.mem the images its
\* ->prev chain runs through
ImageExecCalls(cfg, ns, ev) ==
    LET ie == ev.ie IN
    logevt_header(ie.hdr) \o
    If("EIFLAG_PIDLOOKUP" \in ie.flags,
       <<dict_item("reconstructed"), value_bool(TRUE)>>) \o
    If(ie.argv # NIL,
       <<dict_item("argv")>> \o StringList("arg", ie.argv[1])) \o
    If(ie.envv # NIL,
       <<dict_item("env")>> \o StringList("var", ie.envv[1])) \o
    If(ie.cwd # NULLSTR,
       <<dict_item("cwd"), value_string(ie.cwd)>>) \o
    <<dict_item("image")>> \o
    logevt_image_exec_image(cfg, ns, ie) \o
    If(ie.script # NIL,
       <<dict_item("script")>> \o
       logevt_image_exec_image(cfg, ns, ie.script[1])) \o
    <<dict_item("subject")>> \o
    logevt_process(cfg, ns, ev.mem,
                   IF "EIFLAG_PIDLOOKUP" \in ie.flags THEN NIL
                   ELSE Ref(ie.subject),
                   0, ie.prev) \o
    logevt_footer

ProcessAccessCalls(cfg, ns, pa) ==
    logevt_header(pa.hdr) \o
    <<dict_item("method"), value_string(pa.method)>> \o
    <<dict_item("object")>> \o
    logevt_process(cfg, ns, pa.mem, Ref(pa.object), pa.objectpid,
                   pa.object_image_exec) \o
    <<dict_item("subject")>> \o
    logevt_process(cfg, ns, pa.mem, Ref(pa.subject), 0,
                   pa.subject_image_exec) \o
    logevt_footer

LaunchdAddCalls(cfg, ns, ldadd) ==
    logevt_header(ldadd.hdr) \o
    <<dict_item("plist"), dict_begin,
      dict_item("path"), value_string(ldadd.plist_path),
      dict_end>> \o
    <<dict_item("program"), dict_begin>> \o
    If(ldadd.program_rpath # NULLSTR,
       <<dict_item("rpath"), value_string(ldadd.program_rpath)>>) \o
    If(ldadd.program_path # NULLSTR,
       <<dict_item("path"), value_string(ldadd.program_path)>>) \o
    If(ldadd.program_argv # NIL,
       <<dict_item("argv")>> \o StringList("arg", ldadd.program_argv[1])) \o
    <<dict_end>> \o
    If("LAFLAG_NOSUBJECT" \notin ldadd.flags,
       <<dict_item("subject")>> \o
       logevt_process(cfg, ns, ldadd.mem, Ref(ldadd.subject), 0,
                      ldadd.subject_image_exec)) \o
    logevt_footer

\* the "proto" and "sockaddr"/"sockport" part shared by the socket events
SockItems(so) ==
    If(so.protocol # 0,
       <<dict_item("proto"), value_string(protocoltoa(so.protocol))>>) \o
    If(~ipaddr_is_empty(so.sock_addr),
       <<dict_item("sockaddr"), value_string(ipaddrtoa(so.sock_addr)),
         dict_item("sockport"), value_uint(so.sock_port)>>)

\* the peer pair written when the local address is set
PeerItems_under_sock_addr(so) ==
    If(~ipaddr_is_empty(so.sock_addr),
       <<dict_item("peeraddr"), value_string(ipaddrtoa(so.peer_addr)),
         dict_item("peerport"), value_uint(so.peer_port)>>)

PeerItems(so) ==
    If(~ipaddr_is_empty(so.peer_addr),
       <<dict_item("peeraddr"), value_string(ipaddrtoa(so.peer_addr)),
         dict_item("peerport"), value_uint(so.peer_port)>>)

SubjectItem(cfg, ns, so) ==
    <<dict_item("subject")>> \o
    logevt_process(cfg, ns, so.mem, Ref(so.subject), 0,
                   so.subject_image_exec)

SocketListenCalls(cfg, ns, so) ==
    logevt_header(so.hdr) \o SockItems(so) \o
    SubjectItem(cfg, ns, so) \o logevt_footer

SocketAcceptCalls(cfg, ns, so) ==
    logevt_header(so.hdr) \o SockItems(so) \o PeerItems(so) \o
    SubjectItem(cfg, ns, so) \o logevt_footer

SocketConnectCalls(cfg, ns, so) ==
    logevt_header(so.hdr) \o SockItems(so) \o PeerItems(so) \o
    SubjectItem(cfg, ns, so) \o logevt_footer

\* the calls of the serializer for descriptor ev, by its kind
Calls(cfg, ns, ev) ==
    CASE ev.kind = "xnumon_ops" -> XnumonOpsCalls(cfg, ev)
      [] ev.kind = "xnumon_stats" -> XnumonStatsCalls(ev)
      [] ev.kind = "image_exec" -> ImageExecCalls(cfg, ns, ev)
      [] ev.kind = "process_access" -> ProcessAccessCalls(cfg, ns, ev)
      [] ev.kind = "launchd_add" -> LaunchdAddCalls(cfg, ns, ev)
      [] ev.kind = "socket_listen" -> SocketListenCalls(cfg, ns, ev)
      [] ev.kind = "socket_accept" -> SocketAcceptCalls(cfg, ns, ev)
      [] ev.kind = "socket_connect" -> SocketConnectCalls(cfg, ns, ev)

(***************************************************************************)
(* Inputs: configurations                                                  *)
(***************************************************************************)
\* the two-valued settings of config_t that logevt.c reads
Switches == {"resolve_users_groups", "omit_mode", "omit_size", "omit_mtime",
             "omit_ctime", "omit_btime", "omit_sid", "omit_groups",
             "omit_apple_hashes", "logfile"}

DefaultHashes == {"sha256"}
HashConfigs == {DefaultHashes, {"md5", "sha1"}}
AncestorConfigs == (0..MaxAnc) \cup {SIZE_MAX}

\* the config_t with the settings in on switched on; "logfile" stands for
\* logging to a named file, which sets id, logoneline and logfile
Config(on, hflags, ancestors) ==
    [path |-> "/etc/xnumon.plist",
     id |-> IF "logfile" \in on THEN "host-1" ELSE NULLSTR,
     launchd_mode |-> TRUE,
     debug |-> FALSE,
     events |-> "config_events_s",
     stats_interval |-> 3600,
     kextlevel |-> "config_kextlevel_s",
     hflags |-> hflags,
     codesign |-> TRUE,
     envlevel |-> "config_envlevel_s",
     resolve_users_groups |-> "resolve_users_groups" \in on,
     omit_mode |-> "omit_mode" \in on,
     omit_size |-> "omit_size" \in on,
     omit_mtime |-> "omit_mtime" \in on,
     omit_ctime |-> "omit_ctime" \in on,
     omit_btime |-> "omit_btime" \in on,
     omit_sid |-> "omit_sid" \in on,
     omit_groups |-> "omit_groups" \in on,
     omit_apple_hashes |-> "omit_apple_hashes" \in on,
     ancestors |-> ancestors,
     logdst |-> "logdst_s",
     logfmt |-> "logfmt_s",
     logoneline |-> IF "logfile" \in on THEN 1 ELSE -1,
     logfile |-> IF "logfile" \in on THEN "/var/log/xnumon.log" ELSE NULLSTR,
     limit_nofile |-> 1024,
     suppress_image_exec_at_start |-> TRUE,
     suppress_image_exec_by_ident |-> 2,
     suppress_image_exec_by_path |-> 1,
     suppress_image_exec_by_ancestor_ident |-> 0,
     suppress_image_exec_by_ancestor_path |-> 0,
     suppress_process_access_by_subject_ident |-> 3,
     suppress_process_access_by_subject_path |-> 0,
     suppress_socket_op_localhost |-> FALSE,
     suppress_socket_op_by_subject_ident |-> 1,
     suppress_socket_op_by_subject_path |-> 0]

\* how many settings differ from the baseline (every switch off, sha256
\* hashes, unlimited ancestors)
Changes(on, hflags, ancestors) ==
    Cardinality(on) + (IF hflags = DefaultHashes THEN 0 ELSE 1)
                    + (IF ancestors = SIZE_MAX THEN 0 ELSE 1)

Configs ==
    {Config(on, h, a) : <<on, h, a>> \in
        {x \in (SUBSET Switches) \X HashConfigs \X AncestorConfigs :
            Changes(x[1], x[2], x[3]) <= MaxSwitches}}

(***************************************************************************)
(* Inputs: name service                                                    *)
(***************************************************************************)
\* what getpwuid/getgrgid find during one call: only root/wheel, or every
\* id in use
NssResults ==
    {[pw |-> (0 :> "root"), gr |-> (0 :> "wheel")],
     [pw |-> (0 :> "root" @@ 501 :> "alice"),
      gr |-> (0 :> "wheel" @@ 20 :> "staff")]}

\* getpwuid and getgrgid are called with resolve_users_groups on only:
\* what they would return matters to no other call
Lookups(conf) ==
    IF conf # NIL /\ conf[1].resolve_users_groups
    THEN NssResults
    ELSE {ns \in NssResults : 501 \in DOMAIN ns.pw}

(***************************************************************************)
(* Inputs: descriptors                                                     *)
(***************************************************************************)
Hdr(code) == [tv |-> 1000 + code, code |-> code]

CsApple == [result |-> "good", origin |-> "system", cdhash |-> "cdhash-ls",
            ident |-> "com.apple.ls", teamid |-> NULLSTR, certcn |-> NULLSTR]
CsDevId == [result |-> "good", origin |-> "devid", cdhash |-> "cdhash-app",
            ident |-> "org.example.app", teamid |-> "TEAM123456",
            certcn |-> "Developer ID Application: Example"]
CsBad == [result |-> "bad", origin |-> NOORIGIN, cdhash |-> NULLSTR,
          ident |-> "com.evil.app", teamid |-> NULLSTR, certcn |-> NULLSTR]
Codesigns == {NIL, Ref(CsApple), Ref(CsDevId), Ref(CsBad)}

NoStat == [mode |-> 0, uid |-> 0, gid |-> 0, size |-> 0,
           mtime |-> 0, ctime |-> 0, btime |-> 0]
Hashes(tag) == [md5 |-> "md5-" \o tag, sha1 |-> "sha1-" \o tag,
                sha256 |-> "sha256-" \o tag]

ProcUser == [pid |-> 500, auid |-> 501, euid |-> 0, egid |-> 0, ruid |-> 501,
             rgid |-> 20, sid |-> 100, dev |-> 5, addr |-> "10.0.0.9"]
ProcDaemon == [pid |-> 60, auid |-> NOID, euid |-> 0, egid |-> NOID,
               ruid |-> 0, rgid |-> 0, sid |-> 1, dev |-> NOID, addr |-> ""]
Procs == {ProcUser, ProcDaemon}

\* an image_exec_t; the fields a rendering does not read are left at rest
Image(pid, path, flags, codesign, script, fork_tv, prev) ==
    [hdr |-> Hdr(2), flags |-> flags, path |-> path, stat |-> NoStat,
     hashes |-> Hashes(path), codesign |-> codesign, script |-> script,
     argv |-> NIL, envv |-> NIL, cwd |-> NULLSTR, pid |-> pid,
     fork_tv |-> fork_tv, subject |-> ProcDaemon, prev |-> prev]

ScriptImage ==
    [Image(0, "/usr/local/bin/run.sh", {"EIFLAG_HASHES", "EIFLAG_STAT"},
           NIL, NIL, 0, 0)
     EXCEPT !.stat = [mode |-> 493, uid |-> 501, gid |-> 20, size |-> 120,
                      mtime |-> 700, ctime |-> 701, btime |-> 699]]

\* The images a ->prev chain runs through: live[i] tells whether node i
\* has a positive pid.  Node i points back to node i + 1; the last node
\* is the root of the lineage (launchd).  Counted from the root, the
\* nodes are: launchd; a reconstructed shell running a script, its
\* signature invalid; an application signed with a developer id.  The
\* signature of launchd is the platform's here and another one, or none,
\* in RootChains.
ChainNode(live, i) ==
    LET n == Len(live)
        k == n - i + 1
        prev == IF i < n THEN i + 1 ELSE 0
        pid == IF ~live[i] THEN (IF i % 2 = 0 THEN 0 ELSE -1)
               ELSE IF k = 1 THEN 1 ELSE 70 + k
    IN  IF k = 1
        THEN Image(pid, "/sbin/launchd", {"EIFLAG_HASHES"},
                   Ref(CsApple), NIL, 0, prev)
        ELSE IF k % 2 = 0
        THEN Image(pid, "/bin/sh", {"EIFLAG_HASHES", "EIFLAG_PIDLOOKUP"},
                   Ref(CsBad), Ref(ScriptImage), 900, prev)
        ELSE Image(pid, "/Applications/app", {},
                   Ref(CsDevId), NIL, 950, prev)

Chain(live) == [i \in 1..Len(live) |-> ChainNode(live, i)]

RECURSIVE Shapes(_)
Shapes(n) ==
    IF n = 0 THEN {<<>>}
    ELSE Shapes(n - 1) \cup
         {Append(s, b) : s \in {x \in Shapes(n - 1) : Len(x) = n - 1},
                         b \in BOOLEAN}

\* the chains handed in: up to MaxChain nodes, the first one (the image
\* of a running process) with a positive pid
Chains == {Chain(s) : s \in {x \in Shapes(MaxChain) : x = <<>> \/ x[1]}}

\* the chains given to the socket and launchd events, which hand them to
\* logevt_process as the other events do: no, one or two images, all
\* with a positive pid
ShortChains ==
    {mem \in Chains :
         Len(mem) <= 2 /\ \A i \in DOMAIN mem : mem[i].pid > 0}

\* address of the first node of a chain, NULL for the empty chain
First(mem) == IF mem = <<>> THEN 0 ELSE 1

XnumonOps == {[kind |-> "xnumon_ops", hdr |-> Hdr(0), subtype |-> s] :
              s \in {"start", "stop"}}

\* an evtloop_stat_t whose counters all derive from n; each group is
\* keyed by the names its counters are written under
StatsOf(n) ==
    LET c(keys, g) == [k \in {keys[i] : i \in DOMAIN keys} |-> n + g] IN
    [kind |-> "xnumon_stats", hdr |-> Hdr(1),
     el |-> c(EvtloopKeys, 0),
     pm |-> c(ProcmonKeys \o MissKeys \o <<"oom">>, 1),
     hm |-> c(MonKeys, 2), fm |-> c(FilemonKeys, 3), sm |-> c(MonKeys, 4),
     ke |-> c(KextKeys, 5), pq |-> c(PrepKeys, 6), ap |-> c(AupiKeys, 7),
     wq |-> c(<<"buckets">>, 8),
     lq |-> [buckets |-> n, errors |-> n + 1,
             counts |-> [i \in 0..(LOGEVT_SIZE - 1) |-> n + i]],
     ch |-> c(CacheKeys, 9), cc |-> c(CacheKeys, 10), cl |-> c(CacheKeys, 11)]

XnumonStats == {StatsOf(n) : n \in {0, 7}}

\* the executed image of an image-exec event: observed with stat data and
\* a script; reconstructed by pid with attributes only; bare
ExecImage(profile, codesign, mem) ==
    LET base == Image(4242, "/bin/ls", {}, codesign, NIL, 0, First(mem)) IN
    CASE profile = "observed" ->
           [base EXCEPT !.flags = {"EIFLAG_STAT", "EIFLAG_HASHES"},
                        !.stat = [mode |-> 365, uid |-> 0, gid |-> 0,
                                  size |-> 38704, mtime |-> 800,
                                  ctime |-> 801, btime |-> 799],
                        !.script = Ref(ScriptImage),
                        !.argv = Ref(<<"ls", "-l">>),
                        !.envv = Ref(<<"HOME=/root">>),
                        !.cwd = "/tmp",
                        !.subject = ProcUser]
      [] profile = "reconstructed" ->
           [base EXCEPT !.flags = {"EIFLAG_ATTR", "EIFLAG_HASHES",
                                   "EIFLAG_PIDLOOKUP"},
                        !.stat = [mode |-> 365, uid |-> 501, gid |-> NOID,
                                  size |-> 0, mtime |-> 0,
                                  ctime |-> 0, btime |-> 0]]
      [] profile = "bare" ->
           [base EXCEPT !.argv = Ref(<<>>), !.envv = Ref(<<>>),
                        !.cwd = "/"]

\* the chain of launchd alone, launchd without a signature or with an
\* invalid one
RootChains ==
    {[mem EXCEPT ![1].codesign = cs] :
     mem \in {c \in Chains : Len(c) = 1}, cs \in {NIL, Ref(CsBad)}}

ImageExecs ==
    {[kind |-> "image_exec", ie |-> ExecImage(p, cs, mem), mem |-> mem] :
     p \in {"observed", "reconstructed", "bare"}, cs \in Codesigns,
     mem \in Chains \cup RootChains}

\* a process access: the object is known by pid only or in full, and its
\* image, when known, is the predecessor of the subject's image
ProcessAccesses ==
    {[kind |-> "process_access", hdr |-> Hdr(3), method |-> "task_for_pid",
      object |-> ProcDaemon, objectpid |-> opid,
      object_image_exec |-> IF oimg /\ mem # <<>> THEN mem[1].prev ELSE 0,
      subject |-> ProcUser, subject_image_exec |-> First(mem),
      mem |-> mem] :
     opid \in {0, 321}, oimg \in BOOLEAN, mem \in Chains}

LaunchdAdd(full, flags, su) ==
    [kind |-> "launchd_add", hdr |-> Hdr(4),
     plist_path |-> "/Library/LaunchDaemons/org.example.plist",
     program_rpath |-> IF full THEN "./run" ELSE NULLSTR,
     program_path |-> IF full THEN "/usr/local/bin/run" ELSE NULLSTR,
     program_argv |-> IF full THEN Ref(<<"run", "-d">>) ELSE NIL,
     flags |-> flags,
     subject |-> su[1], subject_image_exec |-> First(su[2]),
     mem |-> su[2]]

\* the short chains once more, the image of the process without a
\* signature (ie->codesign NULL)
UnsignedChains ==
    {[mem EXCEPT ![1].codesign = NIL] : mem \in ShortChains \ {<<>>}}

\* with LAFLAG_NOSUBJECT the subject is not looked at
LaunchdAdds ==
    {LaunchdAdd(full, {"LAFLAG_NOSUBJECT"}, <<ProcDaemon, <<>>>>) :
     full \in BOOLEAN}
    \cup {LaunchdAdd(su[1] = ProcUser, {}, su) :
          su \in Procs \X (ShortChains \cup UnsignedChains)}

\* protocol 0 is "not known"; a socket with a peer belongs to the user's
\* process, any other to the daemon
Socket(kind, code, sock, peer, mem) ==
    [kind |-> kind, hdr |-> Hdr(code),
     protocol |-> IF sock = "" THEN 0 ELSE IF peer = "" THEN 17 ELSE 6,
     sock_addr |-> sock, sock_port |-> IF sock = "" THEN 0 ELSE 8080,
     peer_addr |-> peer, peer_port |-> IF peer = "" THEN 0 ELSE 443,
     subject |-> IF peer = "" THEN ProcDaemon ELSE ProcUser,
     subject_image_exec |-> First(mem), mem |-> mem]

SockAddrs == {"", "192.0.2.1"}
PeerAddrs == {"", "198.51.100.7"}

\* socket_listen_t has no peer
SocketListens ==
    {[f \in DOMAIN so \ {"peer_addr", "peer_port"} |-> so[f]] :
     so \in {Socket("socket_listen", 5, sock, "", mem) :
             sock \in SockAddrs, mem \in ShortChains}}
SocketAccepts ==
    {Socket("socket_accept", 6, sock, peer, mem) :
     sock \in SockAddrs, peer \in PeerAddrs, mem \in ShortChains}
SocketConnects ==
    {Socket("socket_connect", 7, sock, peer, mem) :
     sock \in SockAddrs, peer \in PeerAddrs, mem \in ShortChains}

\* Descriptors the producer must not build, a script with a signature of
\* its own: as the script of the executed image, and as the script of the
\* image of the subject
SignedScript == [ScriptImage EXCEPT !.codesign = Ref(CsDevId)]
SignedScriptExecs ==
    {[kind |-> "image_exec",
      ie |-> [ExecImage("observed", cs, mem)
              EXCEPT !.script = Ref(SignedScript)],
      mem |-> mem] : cs \in {NIL, Ref(CsApple)}, mem \in ShortChains}
    \cup
    {[kind |-> "image_exec", ie |-> ExecImage(p, NIL, mem),
      mem |-> [mem EXCEPT ![1].script = Ref(SignedScript)]] :
     p \in {"observed", "bare"}, mem \in ShortChains \ {<<>>}}

\* Chains the producer must not build, the ->prev of the last image
\* leading back into the chain; every image has a positive pid
CyclicChains ==
    UNION {{[mem EXCEPT ![Len(mem)].prev = back] : back \in DOMAIN mem} :
           mem \in {c \in Chains : \A i \in DOMAIN c : c[i].pid > 0}}

(***************************************************************************)
(* The program                                                             *)
(***************************************************************************)
Init ==
    /\ config = NIL
    /\ arg0 = NIL
    /\ nss = NIL
    /\ sinkerr = FALSE
    /\ out = <<>>
    /\ ret = 0
    /\ again = FALSE
    /\ alive = TRUE
    /\ walk = NIL
    /\ copy = NIL
    /\ snap = NIL

\* logevt_init stores the pointer, on every call
logevt_init(cfg) ==
    /\ alive
    /\ config' = Ref(cfg)
    /\ UNCHANGED <<arg0, nss, sinkerr, out, ret, again, alive, walk, copy,
                   snap>>

\* index of the first failed assertion among calls, 0 if there is none
Aborted(calls) == \E i \in 1..Len(calls) : calls[i] = ABORT
FirstAbort(calls) ==
    IF Aborted(calls)
    THEN CHOOSE i \in 1..Len(calls) :
             calls[i] = ABORT /\ \A j \in 1..(i - 1) : calls[j] # ABORT
    ELSE 0
\* the calls that reach the sink
Emitted(calls) ==
    IF Aborted(calls) THEN SubSeq(calls, 1, FirstAbort(calls) - 1)
    ELSE calls

\* One serializer call on descriptor ev: every call goes to the sink, the
\* results of the sink are not looked at, and the serializer returns 0
\* unless an assertion ended the process before.  A caller that has kept
\* a copy of an earlier call notes on it a call on another descriptor.
Serialize(ev, ns, fail, calls) ==
    /\ alive
    /\ arg0' = Ref(ev)
    /\ again' = (arg0 = Ref(ev))
    /\ nss' = Ref(ns)
    /\ sinkerr' = fail
    /\ out' = Emitted(calls)
    /\ alive' = ~Aborted(calls)
    /\ ret' = IF Aborted(calls) THEN ret ELSE 0
    /\ copy' = IF copy # NIL /\ copy[1].arg0 # Ref(ev)
               THEN Ref([copy[1] EXCEPT !.other = TRUE])
               ELSE copy
    /\ snap' = config
    /\ UNCHANGED <<config, walk>>

\* the caller keeps a copy of the latest call: what it passed, and the
\* calls and the value it got
Keep ==
    /\ alive
    /\ arg0 # NIL
    /\ copy = NIL
    /\ copy' = Ref([arg0 |-> arg0, nss |-> nss, config |-> snap,
                     out |-> out, ret |-> ret, other |-> FALSE])
    /\ UNCHANGED <<config, arg0, nss, sinkerr, out, ret, again, alive,
                   walk, snap>>

\* the caller is done with the descriptor of the latest call and lets go
\* of it and of what was observed of the call
Release ==
    /\ alive
    /\ arg0 # NIL
    /\ arg0' = NIL
    /\ nss' = NIL
    /\ sinkerr' = FALSE
    /\ out' = <<>>
    /\ ret' = 0
    /\ again' = FALSE
    /\ snap' = NIL
    /\ UNCHANGED <<config, alive, walk, copy>>

logevt_xnumon_ops(ops, ns, fail) ==
    /\ config # NIL
    /\ Serialize(ops, ns, fail, XnumonOpsCalls(config[1], ops))

\* the only serializer that does not read config
logevt_xnumon_stats(st, ns, fail) ==
    Serialize(st, ns, fail, XnumonStatsCalls(st))

logevt_image_exec(ev, ns, fail) ==
    /\ config # NIL
    /\ Serialize(ev, ns, fail, ImageExecCalls(config[1], ns, ev))

logevt_process_access(pa, ns, fail) ==
    /\ config # NIL
    /\ Serialize(pa, ns, fail, ProcessAccessCalls(config[1], ns, pa))

\* config is read for the subject only
logevt_launchd_add(ldadd, ns, fail) ==
    /\ config # NIL \/ "LAFLAG_NOSUBJECT" \in ldadd.flags
    /\ Serialize(ldadd, ns, fail, LaunchdAddCalls(config[1], ns, ldadd))

logevt_socket_listen(so, ns, fail) ==
    /\ config # NIL
    /\ Serialize(so, ns, fail, SocketListenCalls(config[1], ns, so))

logevt_socket_accept(so, ns, fail) ==
    /\ config # NIL
    /\ Serialize(so, ns, fail, SocketAcceptCalls(config[1], ns, so))

logevt_socket_connect(so, ns, fail) ==
    /\ config # NIL
    /\ Serialize(so, ns, fail, SocketConnectCalls(config[1], ns, so))

\* The caller of Step holds one descriptor at a time: it passes a new
\* one, or the one of the latest call again, and lets go of it with
\* Release.  It gives a configuration while it holds none.
Offered(ev) == arg0 \in {NIL, Ref(ev)}
Idle == arg0 = NIL

\* one step of the program and its caller, the sink failing as Fails allows
Step(Fails) ==
    \/ \E cfg \in Configs : Idle /\ logevt_init(cfg)
    \/ Release
    \/ \E ns \in Lookups(config), fail \in Fails :
        \/ \E ops \in XnumonOps :
               Offered(ops) /\ logevt_xnumon_ops(ops, ns, fail)
        \/ \E st \in XnumonStats :
               Offered(st) /\ logevt_xnumon_stats(st, ns, fail)
        \/ \E ev \in ImageExecs :
               Offered(ev) /\ logevt_image_exec(ev, ns, fail)
        \/ \E pa \in ProcessAccesses :
               Offered(pa) /\ logevt_process_access(pa, ns, fail)
        \/ \E ldadd \in LaunchdAdds :
               Offered(ldadd) /\ logevt_launchd_add(ldadd, ns, fail)
        \/ \E so \in SocketListens :
               Offered(so) /\ logevt_socket_listen(so, ns, fail)
        \/ \E so \in SocketAccepts :
               Offered(so) /\ logevt_socket_accept(so, ns, fail)
        \/ \E so \in SocketConnects :
               Offered(so) /\ logevt_socket_connect(so, ns, fail)

\* the sink takes every write
Next == Step({FALSE})
Spec == Init /\ [][Next]_vars

\* any call may meet a failing sink
NextSinkFailure == Step(BOOLEAN)
SpecSinkFailure == Init /\ [][NextSinkFailure]_vars

\* The loop of logevt_process_image_exec_ancestors, one iteration a
\* step.  logevt_process calls it with config->ancestors > 0, on the
\* ->prev of the image of the process.
WalkBegin(mem) ==
    /\ config # NIL
    /\ config[1].ancestors > 0
    /\ walk = NIL
    /\ walk' = Ref([mem |-> mem, pie |-> mem[1].prev, depth |-> 0,
                     pc |-> "for"])
    /\ UNCHANGED <<config, arg0, nss, sinkerr, out, ret, again, alive,
                   copy, snap>>

\* a walk is followed for this many entries
MaxWalk == 8

\* the loop without depth++
WalkStep_without_count ==
    /\ walk # NIL
    /\ walk[1].pc = "for"
    /\ walk[1].depth < MaxWalk
    /\ LET mem == walk[1].mem
           pie == walk[1].pie
           depth == walk[1].depth
       IN  IF pie # 0 /\ mem[pie].pid > 0 /\ depth # config[1].ancestors
           THEN walk' = Ref([walk[1] EXCEPT
                                 !.pie = mem[pie].prev])
           ELSE walk' = Ref([walk[1] EXCEPT !.pc = "list_end"])
    /\ UNCHANGED <<config, arg0, nss, sinkerr, out, ret, again, alive,
                   copy, snap>>

\* one test of the loop condition and of the break, then the entry,
\* depth++ and pie = pie->prev, or list_end
WalkStep ==
    /\ walk # NIL
    /\ walk[1].pc = "for"
    /\ walk[1].depth < MaxWalk
    /\ LET mem == walk[1].mem
           pie == walk[1].pie
           depth == walk[1].depth
       IN  IF pie # 0 /\ mem[pie].pid > 0 /\ depth # config[1].ancestors
           THEN walk' = Ref([walk[1] EXCEPT
                                 !.pie = mem[pie].prev,
                                 !.depth = @ + 1])
           ELSE walk' = Ref([walk[1] EXCEPT !.pc = "list_end"])
    /\ UNCHANGED <<config, arg0, nss, sinkerr, out, ret, again, alive,
                   copy, snap>>

\* the configuration is given before the call the walk belongs to
NextWalk ==
    \/ \E cfg \in Configs : walk = NIL /\ logevt_init(cfg)
    \/ \E mem \in (Chains \ {<<>>}) \cup CyclicChains : WalkBegin(mem)
    \/ WalkStep
\* a loop that can go on does go on
SpecWalk == Init /\ [][NextWalk]_vars /\ WF_vars(WalkStep)

\* the producer may also hand in an exec with a signed script
NextSignedScript ==
    \/ Next
    \/ \E ns \in Lookups(config), ev \in SignedScriptExecs :
           Offered(ev) /\ logevt_image_exec(ev, ns, FALSE)
SpecSignedScript == Init /\ [][NextSignedScript]_vars

\* A caller that gives configurations and serializes descriptors in any
\* order, any of them any number of times, and keeps a copy of one call.
\* The configurations differ in config->ancestors; the chains are the
\* empty one and the one with a predecessor.
RepeatConfigs == {Config({}, DefaultHashes, a) : a \in {0, MaxAnc, SIZE_MAX}}
RepeatChains == {mem \in ShortChains : Len(mem) # 1}
Repeated(S) == {ev \in S : ev.mem \in RepeatChains}
WithPredecessor(S) == {ev \in S : ev.mem # <<>>}
RepeatCalls ==
    \E ns \in Lookups(config) :
        \/ \E ops \in XnumonOps : logevt_xnumon_ops(ops, ns, FALSE)
        \/ \E st \in XnumonStats : logevt_xnumon_stats(st, ns, FALSE)
        \/ \E ev \in {x \in Repeated(ImageExecs) :
                          /\ x.ie.codesign = Ref(CsApple)
                          /\ "EIFLAG_PIDLOOKUP" \notin x.ie.flags} :
               logevt_image_exec(ev, ns, FALSE)
        \/ \E pa \in {x \in Repeated(ProcessAccesses) : x.objectpid = 0} :
               logevt_process_access(pa, ns, FALSE)
        \/ \E ldadd \in {x \in Repeated(LaunchdAdds) :
                             /\ x.program_argv # NIL
                             /\ x.subject = ProcUser} :
               logevt_launchd_add(ldadd, ns, FALSE)
        \/ \E so \in {x \in WithPredecessor(Repeated(SocketListens)) :
                          x.sock_addr # ""} :
               logevt_socket_listen(so, ns, FALSE)
        \/ \E so \in {x \in WithPredecessor(Repeated(SocketAccepts)) :
                          x.sock_addr # "" /\ x.peer_addr # ""} :
               logevt_socket_accept(so, ns, FALSE)
        \/ \E so \in {x \in WithPredecessor(Repeated(SocketConnects)) :
                          x.sock_addr # "" /\ x.peer_addr # ""} :
               logevt_socket_connect(so, ns, FALSE)
NextRepeat ==
    \/ \E cfg \in RepeatConfigs : logevt_init(cfg)
    \/ Keep
    \/ RepeatCalls
SpecRepeat == Init /\ [][NextRepeat]_vars

(***************************************************************************)
(* Reading a call sequence                                                 *)
(***************************************************************************)
\* a serializer call has been made and has returned
Called == arg0 # NIL /\ alive
\* the descriptor and configuration of the latest call; a call made
\* before logevt_init has read no configuration, and its record is held
\* against the baseline configuration
Ev == arg0[1]
Cfg == IF config = NIL THEN Config({}, DefaultHashes, SIZE_MAX)
       ELSE config[1]

OpenOps == {"dict_begin", "list_begin"}
CloseOps == {"dict_end", "list_end"}

\* nesting depth after call i of s (0 outside every block)
DepthAt(s, i) ==
    Cardinality({j \in 1..i : s[j].op \in OpenOps})
    - Cardinality({j \in 1..i : s[j].op \in CloseOps})

\* nesting depth after each of the calls lo..hi of s, the depth before
\* call lo being base
RECURSIVE DepthsFrom(_, _, _, _)
DepthsFrom(s, lo, hi, base) ==
    IF lo > hi THEN <<>>
    ELSE IF lo = hi
    THEN <<base + (IF s[lo].op \in OpenOps THEN 1
                   ELSE IF s[lo].op \in CloseOps THEN 0 - 1 ELSE 0)>>
    ELSE LET mid == (lo + hi) \div 2
             left == DepthsFrom(s, lo, mid, base)
         IN  left \o DepthsFrom(s, mid + 1, hi, left[Len(left)])

\* nesting depth after each call of s
Depths(s) == DepthsFrom(s, 1, Len(s), 0)

\* the positions inside the block opened at position b, its end excluded,
\* D being the depths of the sequence
InsideAt(D, b) ==
    LET ends == {j \in (b + 1)..Len(D) : D[j] < D[b]}
        e == IF ends = {} THEN Len(D) + 1
             ELSE CHOOSE j \in ends : \A k \in ends : j <= k
    IN  (b + 1)..(e - 1)

\* the positions of s inside the block opened at position b
Inside(s, b) == InsideAt(Depths(s), b)

\* the keys written directly in the block opened at position b
BlockKeys(s, b) ==
    LET D == Depths(s) IN
    {s[j].s : j \in {k \in InsideAt(D, b) :
                       s[k].op = "dict_item" /\ D[k] = D[b]}}

\* the keys written directly in the dictionary of the record
RecordKeys(s) == IF Len(s) < 2 THEN {} ELSE BlockKeys(s, 2)

\* the positions where key is written, at any depth
KeyAt(s, key) == {i \in DOMAIN s : s[i] = dict_item(key)}

\* the positions of the blocks written as the value of key
BlocksOf(s, key) == {i + 1 : i \in KeyAt(s, key)}

(***************************************************************************)
(* C1  Every serializer call makes exactly one record_begin and one        *)
(* record_end call, the first and the last call of the invocation, and     *)
(* the first three keys written are version, time, eventcode.              *)
(***************************************************************************)
C1_OneRecordWithEnvelope ==
    Called =>
        /\ Len(out) >= 2
        /\ out[1] = record_begin
        /\ out[Len(out)] = record_end
        /\ \A i \in 2..(Len(out) - 1) :
               out[i].op \notin {"record_begin", "record_end"}
        /\ LET at == SelectSeq([i \in DOMAIN out |-> i],
                                LAMBDA i : out[i].op = "dict_item")
               D == Depths(out)
           IN  /\ Len(at) >= 3
               /\ out[at[1]].s = "version"
               /\ out[at[2]].s = "time"
               /\ out[at[3]].s = "eventcode"
               /\ \A k \in 1..3 : D[at[k]] = 1

\* an image-exec event with arguments and a subject has been serialized
C1_Witness ==
    /\ Called
    /\ Ev.kind = "image_exec"
    /\ "argv" \in RecordKeys(out)
    /\ "subject" \in RecordKeys(out)

(***************************************************************************)
(* C2  In the calls of one invocation every dict_item is followed at once  *)
(* by one value call or by a dict_begin/list_begin, a value or a block     *)
(* never comes without the item it belongs to, and the dict and list       *)
(* blocks are closed in stack order, all of them before record_end.        *)
(***************************************************************************)
BlockKind(op) == IF op \in {"dict_begin", "dict_end"} THEN "dict" ELSE "list"

\* every close call closes the innermost open block, which is of its kind,
\* and no block is open at record_end or at the end
Nested(s) ==
    LET D == Depths(s) IN
    /\ \A j \in DOMAIN s : D[j] >= 0
    /\ D[Len(s)] = 0
    /\ \A j \in DOMAIN s : s[j].op = "record_end" => D[j] = 0
    /\ \A j \in DOMAIN s :
           s[j].op \in CloseOps =>
               LET opens == {i \in 1..(j - 1) :
                               s[i].op \in OpenOps /\ D[i] = D[j] + 1}
               IN  /\ opens # {}
                   /\ LET i == CHOOSE i \in opens : \A k \in opens : k <= i
                      IN  BlockKind(s[i].op) = BlockKind(s[j].op)

C2_ItemsAndBlocksWellFormed ==
    Called =>
        /\ \A i \in DOMAIN out :
               out[i].op = "dict_item" =>
                   /\ i < Len(out)
                   /\ out[i + 1].op \in ValueOps \cup OpenOps
        /\ \A i \in DOMAIN out :
               out[i].op \in ValueOps =>
                   i > 1 /\ out[i - 1].op \in {"dict_item", "list_item"}
        /\ \A i \in DOMAIN out :
               out[i].op \in OpenOps =>
                   i > 1 /\ out[i - 1].op \in
                                {"dict_item", "list_item", "record_begin"}
        /\ Nested(out)

\* a process with credentials, a script block and a non-empty ancestor
\* list have been written in one record
C2_Witness ==
    /\ Called
    /\ KeyAt(out, "euid") # {}
    /\ KeyAt(out, "script") # {}
    /\ \E i \in DOMAIN out : out[i] = list_item("ancestor")

(***************************************************************************)
(* What a descriptor hands to the serializers                              *)
(***************************************************************************)
Range(s) == {s[i] : i \in DOMAIN s}

\* the processes a record renders in full (pid and credentials), in order
FullProcesses(ev) ==
    CASE ev.kind = "image_exec" ->
           IF "EIFLAG_PIDLOOKUP" \in ev.ie.flags THEN <<>>
           ELSE <<ev.ie.subject>>
      [] ev.kind = "process_access" ->
           (IF ev.objectpid > 0 THEN <<>> ELSE <<ev.object>>) \o
           <<ev.subject>>
      [] ev.kind = "launchd_add" ->
           IF "LAFLAG_NOSUBJECT" \in ev.flags THEN <<>> ELSE <<ev.subject>>
      [] ev.kind \in {"socket_listen", "socket_accept", "socket_connect"} ->
           <<ev.subject>>
      [] OTHER -> <<>>

\* the images a record renders as objects (file metadata included), in
\* order
ObjectImages(ev) ==
    IF ev.kind = "image_exec"
    THEN <<ev.ie>> \o (IF ev.ie.script # NIL THEN <<ev.ie.script[1]>> ELSE <<>>)
    ELSE <<>>

\* the addresses of the images attached to the processes a record
\* renders, in order (0: no image)
ProcessImages(ev) ==
    CASE ev.kind = "image_exec" -> <<ev.ie.prev>>
      [] ev.kind = "process_access" ->
           <<ev.object_image_exec, ev.subject_image_exec>>
      [] ev.kind = "launchd_add" ->
           IF "LAFLAG_NOSUBJECT" \in ev.flags THEN <<>>
           ELSE <<ev.subject_image_exec>>
      [] ev.kind \in {"socket_listen", "socket_accept", "socket_connect"} ->
           <<ev.subject_image_exec>>
      [] OTHER -> <<>>

(***************************************************************************)
(* C3  For every uid/gid handed to the identity resolver the numeric id    *)
(* key is written.  The sentinel is written as the signed integer -1 and   *)
(* no name key follows it, whatever resolve_users_groups is.  Any other    *)
(* id is written unsigned, and its name key follows if and only if         *)
(* resolve_users_groups is on and the lookup of the id succeeds.           *)
(***************************************************************************)
NameLabel == [uid |-> "uname", gid |-> "gname", auid |-> "auname",
              euid |-> "euname", egid |-> "egname", ruid |-> "runame",
              rgid |-> "rgname"]
IdLabels == DOMAIN NameLabel
GroupLabels == {"gid", "egid", "rgid"}

\* the ids handed to the resolver for descriptor ev, as <<label, id>>
RECURSIVE Flatten(_)
Flatten(ss) == IF ss = <<>> THEN <<>> ELSE Head(ss) \o Flatten(Tail(ss))

ResolverInputs(cfg, ev) ==
    LET keep(pairs) ==
            SelectSeq(pairs, LAMBDA x :
                x[1] \notin GroupLabels \/ ~cfg.omit_groups)
        image(ie) ==
            IF ie.flags \cap {"EIFLAG_STAT", "EIFLAG_ATTR"} = {} THEN <<>>
            ELSE keep(<<<<"uid", ie.stat.uid>>, <<"gid", ie.stat.gid>>>>)
        process(p) ==
            keep(<<<<"auid", p.auid>>, <<"euid", p.euid>>,
                   <<"egid", p.egid>>, <<"ruid", p.ruid>>,
                   <<"rgid", p.rgid>>>>)
        images == ObjectImages(ev)
        procs == FullProcesses(ev)
    IN  Flatten([i \in DOMAIN images |-> image(images[i])]) \o
        Flatten([i \in DOMAIN procs |-> process(procs[i])])

\* the id keys a call sequence holds with the value after each, in order
IdPositions(s) ==
    SelectSeq([i \in DOMAIN s |-> i],
              LAMBDA i : s[i].op = "dict_item" /\ s[i].s \in IdLabels)

LookupSucceeds(ns, label, id) ==
    IF label \in GroupLabels THEN id \in DOMAIN ns.gr ELSE id \in DOMAIN ns.pw

C3_IdAlwaysNameOnlyIfResolved ==
    Called =>
        LET at == IdPositions(out)
            ids == ResolverInputs(Cfg, Ev)
        IN  /\ Len(at) = Len(ids)
            /\ \A k \in DOMAIN at :
                   LET i == at[k]
                       label == ids[k][1]
                       id == ids[k][2]
                       named == out[i + 2] = dict_item(NameLabel[label])
                   IN  /\ out[i].s = label
                       /\ IF id = NOID
                          THEN out[i + 1] = value_int(0 - 1) /\ ~named
                          ELSE /\ out[i + 1] = value_uint(id)
                               /\ named <=>
                                      /\ Cfg.resolve_users_groups
                                      /\ LookupSucceeds(nss[1], label, id)
                               /\ named => out[i + 3].op = "value_string"

\* with resolution on, one record holds a sentinel id, an id whose lookup
\* failed and an id written with its name
C3_Witness ==
    /\ Called
    /\ config # NIL
    /\ Cfg.resolve_users_groups
    /\ \E p \in Range(FullProcesses(Ev)) : p.auid = NOID
    /\ \E x \in Range(ResolverInputs(Cfg, Ev)) :
           x[2] # NOID /\ ~LookupSucceeds(nss[1], x[1], x[2])
    /\ KeyAt(out, "euname") # {}

(***************************************************************************)
(* C4  The ancestors list of a process holds the nodes of the ->prev       *)
(* chain of its image up to the first node with a non-positive pid or      *)
(* the end of the chain, nearest first, cut to the first D entries when    *)
(* there are more than D = config->ancestors of them.                      *)
(***************************************************************************)
\* the pids of the chain starting at address p, up to the first
\* non-positive pid or the end of the chain
RECURSIVE LivePids(_, _)
LivePids(mem, p) ==
    IF p = 0 THEN <<>>
    ELSE IF mem[p].pid <= 0 THEN <<>>
    ELSE <<mem[p].pid>> \o LivePids(mem, mem[p].prev)

\* the ancestors the claim expects for a process with image address p
ExpectedAncestors(cfg, mem, p) ==
    IF p = 0 THEN <<>>
    ELSE LET chain == LivePids(mem, mem[p].prev) IN
         IF Len(chain) > cfg.ancestors
         THEN SubSeq(chain, 1, cfg.ancestors)
         ELSE chain

\* the pids of the entries of the ancestor lists of a call sequence
AncestorPids(s) ==
    LET at == SelectSeq([i \in DOMAIN s |-> i],
                        LAMBDA i : s[i] = list_item("ancestor"))
        pidOf(i) ==
            LET j == CHOOSE j \in Inside(s, i + 1) :
                         /\ s[j] = dict_item("exec_pid")
                         /\ \A k \in Inside(s, i + 1) :
                                s[k] = dict_item("exec_pid") => j <= k
            IN  s[j + 1].n
    IN  [k \in DOMAIN at |-> pidOf(at[k])]

C4_AncestorsCutAtDepth ==
    (Called /\ Ev.kind \notin {"xnumon_ops", "xnumon_stats"}) =>
        LET images == ProcessImages(Ev) IN
        /\ AncestorPids(out) =
               Flatten([i \in DOMAIN images |->
                           ExpectedAncestors(Cfg, Ev.mem, images[i])])
        /\ Cardinality(KeyAt(out, "ancestors")) =
               IF Cfg.ancestors > 0
               THEN Cardinality({i \in DOMAIN images : images[i] # 0})
               ELSE 0

\* a process with more live ancestors than config->ancestors >= 1 admits
C4_Witness ==
    /\ Called
    /\ Ev.kind = "process_access"
    /\ Cfg.ancestors >= 1
    /\ Ev.subject_image_exec # 0
    /\ Len(LivePids(Ev.mem, Ev.mem[Ev.subject_image_exec].prev))
           > Cfg.ancestors
    /\ Len(AncestorPids(out)) = Cfg.ancestors

(***************************************************************************)
(* C5  For each redaction switch and every descriptor that holds the data  *)
(* the switch is about: with the switch off every field it gates is        *)
(* written, with the switch on none of them is, and the two call           *)
(* sequences are otherwise the same, call for call.                        *)
(***************************************************************************)
OmitSwitches == {"omit_mode", "omit_size", "omit_mtime", "omit_ctime",
                 "omit_btime", "omit_sid", "omit_groups"}

\* the keys a switch is documented to suppress
Gated(sw) ==
    CASE sw = "omit_mode" -> {"mode"}
      [] sw = "omit_size" -> {"size"}
      [] sw = "omit_mtime" -> {"mtime"}
      [] sw = "omit_ctime" -> {"ctime"}
      [] sw = "omit_btime" -> {"btime"}
      [] sw = "omit_sid" -> {"sid"}
      [] sw = "omit_groups" ->
           {"gid", "gname", "egid", "egname", "rgid", "rgname"}

\* the gated keys whose data descriptor ev holds
GatedData(sw, ev) ==
    LET images == Range(ObjectImages(ev))
        attr == \E ie \in images :
                    ie.flags \cap {"EIFLAG_STAT", "EIFLAG_ATTR"} # {}
        stat == \E ie \in images : "EIFLAG_STAT" \in ie.flags
        proc == FullProcesses(ev) # <<>>
    IN  CASE sw = "omit_mode" -> IF attr THEN {"mode"} ELSE {}
          [] sw \in {"omit_size", "omit_mtime", "omit_ctime", "omit_btime"} ->
               IF stat THEN Gated(sw) ELSE {}
          [] sw = "omit_sid" -> IF proc THEN {"sid"} ELSE {}
          [] sw = "omit_groups" ->
               (IF attr THEN {"gid"} ELSE {}) \cup
               (IF proc THEN {"egid", "rgid"} ELSE {})

\* every key of a call sequence, at any depth
AllKeys(s) == {s[i].s : i \in {j \in DOMAIN s : s[j].op = "dict_item"}}

\* s without the items of the given keys and the value after each
Strip(s, keys) ==
    LET item(i) == s[i].op = "dict_item" /\ s[i].s \in keys
        kept == SelectSeq([i \in DOMAIN s |-> i],
                          LAMBDA i : ~item(i) /\ ~(i > 1 /\ item(i - 1)))
    IN  [k \in DOMAIN kept |-> s[kept[k]]]

C5_SwitchRemovesOnlyItsField ==
    (Called /\ config # NIL) =>
        \A sw \in OmitSwitches :
            GatedData(sw, Ev) # {} =>
                LET other == Emitted(Calls([Cfg EXCEPT ![sw] = ~Cfg[sw]],
                                           nss[1], Ev))
                    off == IF Cfg[sw] THEN other ELSE out
                    on == IF Cfg[sw] THEN out ELSE other
                IN  /\ GatedData(sw, Ev) \subseteq AllKeys(off)
                    /\ AllKeys(on) \cap Gated(sw) = {}
                    /\ Strip(off, Gated(sw)) = on

\* omit_size is on for an image with stat data: size is not written,
\* the times are
C5_Witness ==
    /\ Called
    /\ config # NIL
    /\ Cfg.omit_size
    /\ Ev.kind = "image_exec"
    /\ "EIFLAG_STAT" \in Ev.ie.flags
    /\ "size" \notin AllKeys(out)
    /\ {"mode", "mtime", "ctime", "btime", "sid"} \subseteq AllKeys(out)

(***************************************************************************)
(* C6  In both renderings of an image whose hashes are present, no hash    *)
(* field is written when omit_apple_hashes is on and the image carries a   *)
(* trusted platform signature; in every other case exactly the hash        *)
(* fields config->hflags selects are written.                              *)
(***************************************************************************)
HashKeys == {"md5", "sha1", "sha256"}

ExpectedHashes(cfg, ie) ==
    IF /\ cfg.omit_apple_hashes
       /\ ie.codesign # NIL
       /\ codesign_is_apple_system(ie.codesign[1])
    THEN {}
    ELSE cfg.hflags

\* the blocks of the object-image rendering: the values of the "image"
\* and "script" keys of the record
ObjectBlocks(s) ==
    <<CHOOSE b \in BlocksOf(s, "image") : DepthAt(s, b) = 2>> \o
    (IF "script" \in RecordKeys(s)
     THEN <<CHOOSE b \in BlocksOf(s, "script") : DepthAt(s, b) = 2>>
     ELSE <<>>)

\* the blocks of the process-context rendering: those that open with
\* exec_time or exec_pid
ProcessContextBlocks(s) ==
    {b \in 1..(Len(s) - 1) :
         /\ s[b] = dict_begin
         /\ s[b + 1] \in {dict_item("exec_time"), dict_item("exec_pid")}}

\* the pid written in the process-context block at b
ExecPid(s, b) ==
    LET i == CHOOSE i \in Inside(s, b) :
                 s[i] = dict_item("exec_pid") /\ DepthAt(s, i) = DepthAt(s, b)
    IN  s[i + 1].n

\* the image of ev with the pid written in the process-context block at
\* b, which opens with exec_pid or with exec_time and then exec_pid
RenderedImage(ev, s, b) ==
    LET pid == IF s[b + 1] = dict_item("exec_pid") THEN s[b + 2].n
               ELSE s[b + 4].n
    IN  ev.mem[CHOOSE p \in DOMAIN ev.mem : ev.mem[p].pid = pid]

C6_PlatformHashesOmitted ==
    (Called /\ Ev.kind \notin {"xnumon_ops", "xnumon_stats"}) =>
        /\ \A b \in ProcessContextBlocks(out) :
               \E p \in DOMAIN Ev.mem :
                   /\ Ev.mem[p].pid = ExecPid(out, b)
                   /\ "EIFLAG_HASHES" \in Ev.mem[p].flags =>
                          BlockKeys(out, b) \cap HashKeys =
                              ExpectedHashes(Cfg, Ev.mem[p])
        /\ Ev.kind = "image_exec" =>
               LET images == ObjectImages(Ev)
                   blocks == ObjectBlocks(out)
               IN  /\ Len(blocks) = Len(images)
                   /\ \A k \in DOMAIN images :
                          "EIFLAG_HASHES" \in images[k].flags =>
                              BlockKeys(out, blocks[k]) \cap HashKeys =
                                  ExpectedHashes(Cfg, images[k])

\* omit_apple_hashes is on: the executed image and the image of the
\* subject carry a platform signature and get no hashes, the script does
C6_Witness ==
    /\ Called
    /\ config # NIL
    /\ Cfg.omit_apple_hashes
    /\ Ev.kind = "image_exec"
    /\ Ev.ie.codesign = Ref(CsApple)
    /\ {"EIFLAG_HASHES"} \subseteq Ev.ie.flags
    /\ Ev.ie.script # NIL
    /\ Len(Ev.mem) = 1
    /\ \A b \in ProcessContextBlocks(out) :
           BlockKeys(out, b) \cap HashKeys = {}
    /\ BlockKeys(out, ObjectBlocks(out)[1]) \cap HashKeys = {}
    /\ BlockKeys(out, ObjectBlocks(out)[2]) \cap HashKeys = Cfg.hflags

(***************************************************************************)
(* C7  The scenario: the exec of a platform-signed image, pid 4242, whose  *)
(* exec image has a single predecessor, pid 1, serialized with ancestor    *)
(* depth 1.  The executed image is written with signature and ident.  The  *)
(* predecessor is written as the image of the subject, in the              *)
(* process-context rendering: without signature, and with ident exactly    *)
(* if it has a good signature with an identifier, as the executed image    *)
(* has.  The ancestors list of the record is empty.                        *)
(***************************************************************************)
C7_Scenario ==
    /\ Called
    /\ config # NIL
    /\ Cfg.ancestors = 1
    /\ Ev.kind = "image_exec"
    /\ Ev.ie.pid = 4242
    /\ Ev.ie.codesign = Ref(CsApple)
    /\ Ev.ie.script = NIL
    /\ Ev.ie.prev = 1
    /\ Len(Ev.mem) = 1
    /\ Ev.mem[1].pid = 1

\* the object rendering of the executed image has signature and ident;
\* the process-context rendering of an image with the signature of the
\* executed image has ident and no signature
C7_Renderings ==
    /\ {"signature", "ident"} \subseteq BlockKeys(out, ObjectBlocks(out)[1])
    /\ \A b \in ProcessContextBlocks(out) :
           RenderedImage(Ev, out, b).codesign = Ev.ie.codesign =>
               /\ "ident" \in BlockKeys(out, b)
               /\ "signature" \notin BlockKeys(out, b)

\* C7 as stated: the ancestors list of the record has exactly one entry,
\* the one of pid 1
C7_OneAncestorEntry ==
    C7_Scenario => (C7_Renderings /\ AncestorPids(out) = <<1>>)

\* the value block of the subject's "image" key
SubjectImageBlocks(s) ==
    {b \in BlocksOf(s, "image") :
         \E sb \in BlocksOf(s, "subject") :
             b \in Inside(s, sb) /\ DepthAt(s, b) = DepthAt(s, sb) + 1}

\* C7 as the code has it: pid 1 is written as the image of the subject,
\* the only process-context block of the record, with ident exactly if
\* its own signature is good and has one; the ancestors list of the
\* subject is written with no entry, the walk starting from the
\* predecessor of that image
C7_PredecessorIsSubjectImage ==
    C7_Scenario =>
        /\ C7_Renderings
        /\ \E sb \in BlocksOf(out, "subject") :
               "ancestors" \in BlockKeys(out, sb)
        /\ AncestorPids(out) = <<>>
        /\ ProcessContextBlocks(out) = SubjectImageBlocks(out)
        /\ \E b \in SubjectImageBlocks(out) : ExecPid(out, b) = 1
        /\ \A b \in SubjectImageBlocks(out) :
               LET cs == Ev.mem[1].codesign IN
               /\ ExecPid(out, b) = 1
               /\ "signature" \notin BlockKeys(out, b)
               /\ "ident" \in BlockKeys(out, b) <=>
                      /\ cs # NIL
                      /\ codesign_is_good(cs[1])
                      /\ cs[1].ident # NULLSTR

\* the scenario with launchd carrying the platform signature: ident is
\* written in the image of the subject, and the ancestors list is empty
C7_Witness ==
    /\ C7_Scenario
    /\ "EIFLAG_STAT" \notin Ev.ie.flags
    /\ Ev.mem[1].codesign = Ref(CsApple)
    /\ \E b \in SubjectImageBlocks(out) :
           ExecPid(out, b) = 1 /\ "ident" \in BlockKeys(out, b)
    /\ \E i \in DOMAIN out :
           /\ i < Len(out)
           /\ out[i] = list_begin
           /\ out[i + 1] = list_end

(***************************************************************************)
(* C8  When a call into the sink fails while a record is written, the      *)
(* serializer returns a non-success value.                                 *)
(***************************************************************************)
C8_SinkFailureReported == (Called /\ sinkerr) => ret # 0

SocketKinds == {"socket_listen", "socket_accept", "socket_connect"}

\* the record has both keys, the port directly after the address, or none
PairIff(s, addrkey, portkey, present) ==
    IF present
    THEN \E i \in KeyAt(s, addrkey) :
             /\ DepthAt(s, i) = 1
             /\ s[i + 1].op = "value_string"
             /\ s[i + 2] = dict_item(portkey)
             /\ s[i + 3].op = "value_uint"
    ELSE {addrkey, portkey} \cap RecordKeys(s) = {}

C10_AddressPortPairs ==
    (Called /\ Ev.kind \in SocketKinds) =>
        /\ PairIff(out, "sockaddr", "sockport", Ev.sock_addr # "")
        /\ PairIff(out, "peeraddr", "peerport",
                   Ev.kind # "socket_listen" /\ Ev.peer_addr # "")

\* a connect with a peer address and no local address
C10_Witness ==
    /\ Called
    /\ Ev.kind = "socket_connect"
    /\ Ev.sock_addr = ""
    /\ Ev.peer_addr # ""
    /\ {"peeraddr", "peerport"} \subseteq RecordKeys(out)
    /\ {"sockaddr", "sockport"} \cap RecordKeys(out) = {}

(***************************************************************************)
(* C11  No record has a signature key inside a script block: in both       *)
(* renderings a script with a signature of its own ends the process in     *)
(* the assertion before any such key is written.                           *)
(***************************************************************************)
SignatureKeys == {"signature", "origin", "cdhash", "ident", "teamid", "certcn"}

\* the scripts an image-exec descriptor has rendered: the one of the
\* executed image and the one of the image of the subject
RenderedScripts(ev) ==
    (IF ev.ie.script # NIL THEN {ev.ie.script[1]} ELSE {}) \cup
    (IF ev.ie.prev # 0 /\ ev.mem[ev.ie.prev].script # NIL
     THEN {ev.mem[ev.ie.prev].script[1]} ELSE {})

C11_SignedScriptNeverWritten ==
    arg0 # NIL =>
        /\ \A b \in BlocksOf(out, "script") :
               BlockKeys(out, b) \cap SignatureKeys = {}
        /\ (/\ Ev.kind = "image_exec"
            /\ \E script \in RenderedScripts(Ev) : script.codesign # NIL)
               => ~alive

(***************************************************************************)
(* C12  The process dictionaries of a record, the values of its subject    *)
(* and object keys.  With a positive bare pid the dictionary has that pid  *)
(* and no credential, sid, dev or addr key, a process descriptor being     *)
(* given or not; otherwise it has the pid of the descriptor, followed by   *)
(* auid, euid, egid, ruid, rgid and sid, less what omit_groups and         *)
(* omit_sid take away.                                                     *)
(***************************************************************************)
\* what each logevt_process call of the serializer of ev is given: the
\* key of the dictionary, the process (NULL or not) and the bare pid
ProcessArgs(ev) ==
    LET arg(k, p, n) == [key |-> k, process |-> p, processpid |-> n] IN
    CASE ev.kind = "image_exec" ->
           <<arg("subject",
                 IF "EIFLAG_PIDLOOKUP" \in ev.ie.flags THEN NIL
                 ELSE Ref(ev.ie.subject), 0)>>
      [] ev.kind = "process_access" ->
           <<arg("object", Ref(ev.object), ev.objectpid),
             arg("subject", Ref(ev.subject), 0)>>
      [] ev.kind = "launchd_add" ->
           IF "LAFLAG_NOSUBJECT" \in ev.flags THEN <<>>
           ELSE <<arg("subject", Ref(ev.subject), 0)>>
      [] ev.kind \in SocketKinds -> <<arg("subject", Ref(ev.subject), 0)>>
      [] OTHER -> <<>>

CredentialKeys == {"auid", "euid", "egid", "ruid", "rgid", "sid"}
ProcessOnlyKeys ==
    CredentialKeys \cup
    {"auname", "euname", "egname", "runame", "rgname", "dev", "addr"}

\* the positions of the keys written directly in the block opened at b,
\* in order
DirectKeysAt(s, b) ==
    LET D == Depths(s)
        in == InsideAt(D, b)
    IN  SelectSeq([i \in DOMAIN s |-> i],
                  LAMBDA i : i \in in /\ s[i].op = "dict_item" /\ D[i] = D[b])

\* the process dictionary written for a: one block, the value of a.key in
\* the dictionary of the record, with the pid and the keys a calls for;
\* nopid tells what a dictionary without bare pid and process has
ProcessDictOf(s, cfg, a, nopid) ==
    LET blocks == {b \in BlocksOf(s, a.key) : DepthAt(s, b) = 2} IN
    /\ Cardinality(blocks) = 1
    /\ LET b == CHOOSE b \in blocks : TRUE
           at == DirectKeysAt(s, b)
           pids == SelectSeq(at, LAMBDA i : s[i].s = "pid")
           creds == SelectSeq(at, LAMBDA i : s[i].s \in CredentialKeys)
           only == {i \in Range(at) : s[i].s \in ProcessOnlyKeys}
       IN  IF a.processpid > 0
           THEN /\ Len(pids) = 1
                /\ s[pids[1] + 1] = value_int(a.processpid)
                /\ only = {}
           ELSE IF a.process # NIL
           THEN /\ Len(pids) = 1
                /\ s[pids[1] + 1] = value_int(a.process[1].pid)
                /\ s[pids[1] + 2] = dict_item("auid")
                /\ [k \in DOMAIN creds |-> s[creds[k]].s] =
                       SelectSeq(<<"auid", "euid", "egid", "ruid", "rgid",
                                   "sid">>,
                                 LAMBDA k :
                                     /\ k \in {"egid", "rgid"}
                                            => ~cfg.omit_groups
                                     /\ k = "sid" => ~cfg.omit_sid)
           ELSE Len(pids) = nopid /\ only = {}

\* C12 as stated: every process dictionary has exactly one pid key
C12_ExactlyOnePid ==
    (Called /\ config # NIL) =>
        \A a \in Range(ProcessArgs(Ev)) : ProcessDictOf(out, Cfg, a, 1)

\* C12 as the code has it: the subject of an exec reconstructed from a
\* bare pid is given neither a process nor a pid, and its dictionary has
\* no pid key and no credential
C12_PidUnlessReconstructed ==
    (Called /\ config # NIL) =>
        \A a \in Range(ProcessArgs(Ev)) : ProcessDictOf(out, Cfg, a, 0)

\* a process access by bare object pid, the object descriptor given too:
\* the pid written for the object is the bare one, the credentials are
\* those of the subject, less the groups
C12_Witness ==
    /\ Called
    /\ config # NIL
    /\ Cfg.omit_groups
    /\ Ev.kind = "process_access"
    /\ Ev.objectpid > 0
    /\ Ev.object.pid # Ev.objectpid
    /\ \E i \in KeyAt(out, "object") :
           /\ out[i + 2] = dict_item("pid")
           /\ out[i + 3] = value_int(Ev.objectpid)
    /\ {"auid", "euid", "ruid", "sid"} \subseteq AllKeys(out)

(***************************************************************************)
(* C13  The ancestor walk ends, whatever the chain and whatever            *)
(* config->ancestors, the unlimited setting and the chains with a cycle    *)
(* included: it writes list_end after at most config->ancestors entries.   *)
(* Every entry raises the count by one, the count never passes             *)
(* config->ancestors, and the loop is left when the count gets there, if   *)
(* not before.  Under the unlimited setting config->ancestors is SIZE_MAX; *)
(* a walk is followed to its end or for MaxWalk entries.                   *)
(***************************************************************************)
\* a step of the walk writes one entry, which the count allows, or
\* list_end
C13_Counted ==
    walk' # walk /\ walk # NIL =>
        /\ walk[1].pc = "for"
        /\ walk[1].depth <= Cfg.ancestors
        /\ walk'[1].depth <= Cfg.ancestors
        /\ \/ /\ walk'[1].pc = "for"
              /\ walk'[1].depth = walk[1].depth + 1
           \/ /\ walk'[1].pc = "list_end"
              /\ walk'[1].depth = walk[1].depth

ObjectOnlySignatureKeys == {"signature", "origin", "cdhash", "certcn"}

\* the keys written in the block opened at b, at any depth
KeysInside(s, D, b) ==
    {s[j].s : j \in {k \in InsideAt(D, b) : s[k].op = "dict_item"}}

C14_ProcessContextSignatureKeys ==
    (Called /\ Ev.kind \notin {"xnumon_ops", "xnumon_stats"}) =>
        LET D == Depths(out) IN
        \A b \in ProcessContextBlocks(out) :
            LET keys == KeysInside(out, D, b)
                cs == RenderedImage(Ev, out, b).codesign
                good == cs # NIL /\ codesign_is_good(cs[1])
            IN  /\ keys \cap ObjectOnlySignatureKeys = {}
                /\ "ident" \in keys => good /\ cs[1].ident # NULLSTR
                /\ "teamid" \in keys => good /\ cs[1].teamid # NULLSTR
                /\ ~good => keys \cap SignatureKeys = {}

\* a record with two process-context blocks: the image of the subject
\* has no signature and gets no signature key; its predecessor, launchd,
\* has a good signature with an ident and no teamid and gets the ident
C14_Witness ==
    /\ Called
    /\ Ev.kind = "launchd_add"
    /\ Len(Ev.mem) = 2
    /\ Ev.mem[1].codesign = NIL
    /\ Ev.mem[2].codesign = Ref(CsApple)
    /\ Cardinality(ProcessContextBlocks(out)) = 2
    /\ \E i \in KeyAt(out, "ident") : out[i + 1] = value_string(CsApple.ident)
    /\ Cardinality(KeyAt(out, "ident")) = 1
    /\ KeyAt(out, "teamid") = {}

====
